---- MODULE Spec2Model ----
(***************************************************************************)
(* A model of the pesadb storage engine (src/src/c/wal_db_upgraded.c):     *)
(* the write-ahead log file, the data file, the page cache, the reader     *)
(* registry and the transaction counter, with one action per exported      *)
(* operation.  Files are sequences of 32-bit words; offsets and sizes are  *)
(* counted in words (4 bytes).  A page is PageWords words instead of the   *)
(* 1024 words of PAGE_SIZE, every other size is the one of the source.     *)
(***************************************************************************)
EXTENDS Integers, Sequences, FiniteSets, TLC

(* ------------------------------ bounds --------------------------------- *)
PageWords == 4        \* words of payload per page (PAGE_SIZE / 4, scaled down)
MaxPage   == 1        \* page ids used by the callers: 0..MaxPage
MaxVal    == 2        \* payload words written by the callers: 1..MaxVal
MaxTxId   == 2        \* begin_write is called at most MaxTxId times per run
MaxLive   == 1        \* WriteTxn handles live at the same time
MaxRegs   == 2        \* begin_read is called at most MaxRegs times per run
MaxRecs   == 3        \* WAL records written over the whole history

(* --------------------------- program constants ------------------------- *)
HdrWords         == 3             \* type, tx_id, page_id
CommitRecWords   == 3             \* sizeof(WalCommitRecord) / 4
PageRecWords     == HdrWords + PageWords    \* sizeof(WalPageRecord) / 4
MAX_TX           == 1024
MAX_READERS      == 32
CACHE_SIZE       == 64
WAL_PAGE         == 1
WAL_COMMIT       == 2
WAL_MAGIC_COMMIT == -1059140866   \* 0xC0DECAFE read as a 32-bit word

(* ------------------------------ helpers -------------------------------- *)
Min(a, b) == IF a < b THEN a ELSE b

Range(s) == {s[i] : i \in 1..Len(s)}

Fill(v) == [i \in 1..PageWords |-> v]

ZeroPage == Fill(0)

Pages == 0..MaxPage

Images == {Fill(v) : v \in 1..MaxVal}

\* what a buffer that read() did not fill may hold
JunkWords == {0, 1, WAL_MAGIC_COMMIT}

\* a bound test that lets tx_id = MAX_TX through
TxOk_incl(t) == t >= 0 /\ t <= MAX_TX

\* uint32 comparison `tx_id < MAX_TX`
TxOk(t) == t >= 0 /\ t < MAX_TX

\* read(fd, &rec, n) at offset off into a local struct: the words past the
\* end of the file are not written and keep an indeterminate value
ReadFile(f, off, n, junk) ==
    [i \in 1..n |-> IF off + i <= Len(f) THEN f[off + i] ELSE junk]

\* write(fd, bytes) at offset off of a file opened without O_APPEND
WriteFile(f, off, bytes) ==
    [i \in 1..(IF off + Len(bytes) > Len(f) THEN off + Len(bytes) ELSE Len(f)) |->
        IF i > off /\ i <= off + Len(bytes) THEN bytes[i - off]
        ELSE IF i <= Len(f) THEN f[i] ELSE 0]

RecData(rec) == SubSeq(rec, HdrWords + 1, PageRecWords)

PageRec(tx_id, page_id, data) == <<WAL_PAGE, tx_id, page_id>> \o data

CommitRec(tx_id) == <<WAL_COMMIT, tx_id, WAL_MAGIC_COMMIT>>

(* ------------------------------ data file ------------------------------ *)
EmptyDb == [q \in {} |-> ZeroPage]

read_page_from_db(d, page_id) ==
    IF page_id \in DOMAIN d THEN d[page_id] ELSE ZeroPage

write_page_to_db(d, page_id, data) ==
    [q \in (DOMAIN d) \cup {page_id} |-> IF q = page_id THEN data ELSE d[q]]

(* ------------------------------ recovery ------------------------------- *)
RECURSIVE RecoverScan(_, _, _, _, _)
RecoverScan(f, off, committed, d, junk) ==
    IF off >= Len(f) THEN d
    ELSE IF f[off + 1] = WAL_COMMIT
    THEN LET cr == ReadFile(f, off, CommitRecWords, junk)
         IN  RecoverScan(f, Min(off + CommitRecWords, Len(f)),
                 IF cr[3] = WAL_MAGIC_COMMIT /\ TxOk(cr[2])
                 THEN committed \cup {cr[2]} ELSE committed,
                 d, junk)
    ELSE LET pr == ReadFile(f, off, PageRecWords, junk)
         IN  RecoverScan(f, Min(off + PageRecWords, Len(f)), committed,
                 IF TxOk(pr[2]) /\ pr[2] \in committed
                 THEN write_page_to_db(d, pr[3], RecData(pr)) ELSE d,
                 junk)

wal_recover(f, d, junk) == RecoverScan(f, 0, {}, d, junk)

(* ------------------------------ WAL lookup ----------------------------- *)
RECURSIVE ForwardScan(_, _, _, _, _, _)
ForwardScan(f, pos, off, snapshot, committed, junk) ==
    IF pos >= snapshot \/ off >= Len(f) THEN [committed |-> committed, off |-> off]
    ELSE IF f[off + 1] = WAL_COMMIT
    THEN LET cr == ReadFile(f, off, CommitRecWords, junk)
         IN  ForwardScan(f, pos + CommitRecWords, Min(off + CommitRecWords, Len(f)),
                 snapshot,
                 IF cr[3] = WAL_MAGIC_COMMIT /\ TxOk(cr[2])
                 THEN committed \cup {cr[2]} ELSE committed,
                 junk)
    ELSE ForwardScan(f, pos + PageRecWords, Min(off + PageRecWords, Len(f)),
                 snapshot, committed, junk)

RECURSIVE ReverseScan(_, _, _, _, _, _)
ReverseScan(f, pos, off, page_id, committed, junk) ==
    IF pos > PageRecWords
    THEN LET p  == pos - PageRecWords
             pr == ReadFile(f, p, PageRecWords, junk)
         IN  IF p >= Len(f) THEN [found |-> FALSE, data |-> ZeroPage, off |-> p]
             ELSE IF /\ pr[1] = WAL_PAGE
                     /\ pr[3] = page_id
                     /\ TxOk(pr[2])
                     /\ pr[2] \in committed
             THEN [found |-> TRUE, data |-> RecData(pr),
                   off |-> Min(p + PageRecWords, Len(f))]
             ELSE ReverseScan(f, p, Min(p + PageRecWords, Len(f)),
                              page_id, committed, junk)
    ELSE [found |-> FALSE, data |-> ZeroPage, off |-> off]

wal_read_page(f, page_id, snapshot, junk) ==
    LET fw == ForwardScan(f, 0, 0, snapshot, {}, junk)
    IN  ReverseScan(f, snapshot, fw.off, page_id, fw.committed, junk)

(* ------------------------------ page cache ----------------------------- *)
find_cached_page(c, page_id) ==
    IF \E i \in 1..Len(c) : c[i].page_id = page_id
    THEN CHOOSE i \in 1..Len(c) :
            /\ c[i].page_id = page_id
            /\ \A j \in 1..(i - 1) : c[j].page_id # page_id
    ELSE 0

\* the cache after get_or_create_cached_page followed by the three stores
\* of write_page_int (the cache is not full)
write_page_int(c, tx_id, page_id, data) ==
    LET i == find_cached_page(c, page_id)
        e == [page_id |-> page_id, owner_tx |-> tx_id, dirty |-> TRUE, data |-> data]
    IN  IF i # 0 THEN [c EXCEPT ![i] = e] ELSE Append(c, e)

(* ------------------------------ commit --------------------------------- *)
\* indices of the cache entries commit_tx appends for tx_id, in cache order
RECURSIVE DirtyOf(_, _, _)
DirtyOf(c, tx_id, i) ==
    IF i > Len(c) THEN <<>>
    ELSE (IF c[i].dirty /\ c[i].owner_tx = tx_id THEN <<i>> ELSE <<>>)
         \o DirtyOf(c, tx_id, i + 1)

\* the words written by the first k calls of wal_append_page in commit_tx
RECURSIVE PageBytes(_, _, _, _)
PageBytes(c, tx_id, idx, k) ==
    IF k = 0 THEN <<>>
    ELSE PageBytes(c, tx_id, idx, k - 1)
         \o PageRec(tx_id, c[idx[k]].page_id, c[idx[k]].data)

\* the cache after the first k iterations that found a dirty entry of tx_id
CleanFirst(c, idx, k) ==
    [i \in 1..Len(c) |->
        IF \E j \in 1..k : idx[j] = i THEN [c[i] EXCEPT !.dirty = FALSE] ELSE c[i]]

(* ------------------------------ read path ------------------------------ *)
\* a read path that serves a cached page only once it is clean
read_page_int_clean(c, f, d, off, snapshot, page_id, junk) ==
    LET i == find_cached_page(c, page_id)
        w == wal_read_page(f, page_id, snapshot, junk)
    IN  IF i # 0 /\ ~c[i].dirty THEN [data |-> c[i].data, off |-> off, src |-> "cache"]
        ELSE IF w.found THEN [data |-> w.data, off |-> w.off, src |-> "wal"]
        ELSE [data |-> read_page_from_db(d, page_id), off |-> w.off, src |-> "db"]

read_page_int(c, f, d, off, snapshot, page_id, junk) ==
    LET i == find_cached_page(c, page_id)
        w == wal_read_page(f, page_id, snapshot, junk)
    IN  IF i # 0 THEN [data |-> c[i].data, off |-> off, src |-> "cache"]
        ELSE IF w.found THEN [data |-> w.data, off |-> w.off, src |-> "wal"]
        ELSE [data |-> read_page_from_db(d, page_id), off |-> w.off, src |-> "db"]

(* ------------------------------ checkpoint ----------------------------- *)
oldest_reader_snapshot(rs) ==
    IF Len(rs) = 0 THEN 0
    ELSE CHOOSE m \in Range(rs) : \A x \in Range(rs) : m <= x

\* the result carries, next to the data file and the file offset, the log
\* ranges [from, to) that the scan read as page records and wrote to the
\* data file
RECURSIVE CheckpointScan(_, _, _, _, _, _, _)
CheckpointScan(f, pos, off, safe, d, moved, junk) ==
    IF pos >= safe \/ off >= Len(f) THEN [db |-> d, off |-> off, moved |-> moved]
    ELSE IF f[off + 1] = WAL_PAGE
    THEN LET pr == ReadFile(f, off, PageRecWords, junk)
         IN  CheckpointScan(f, pos + PageRecWords, Min(off + PageRecWords, Len(f)),
                 safe, write_page_to_db(d, pr[3], RecData(pr)),
                 moved \cup {[from |-> pos, to |-> pos + PageRecWords,
                              tx |-> pr[2], page |-> pr[3], data |-> RecData(pr)]},
                 junk)
    ELSE CheckpointScan(f, pos + CommitRecWords, Min(off + CommitRecWords, Len(f)),
                 safe, d, moved, junk)

checkpoint_int(f, rs, d, junk) ==
    CheckpointScan(f, 0, 0, oldest_reader_snapshot(rs), d, {}, junk)

(* ------------------------------- state --------------------------------- *)
VARIABLES
    wal,               \* content of <path>-wal, a sequence of words
    wal_off,           \* file offset of wal_fd
    db,                \* content of the data file: page id -> page
    next_tx_id,
    reader_snapshots,  \* the first reader_count slots of reader_snapshots[]
    cache,             \* the first cache_count slots of cache[]
    wtx,               \* tx ids of the WriteTxn handles not yet committed
    rtx,               \* snapshots of the ReaderTxn handles
    hLog,              \* history: every record written, in order, and every
                       \* commit_tx that was cut short
    running,           \* the process is alive (FALSE after exit(1) and before
                       \* waldb_open)
    bw,                \* per thread: its place in begin_write_txn and its local tx
    returned,          \* history: the tx ids begin_write returned, in the order
                       \* the calls completed
    hj,                \* a call of hash_join: its arguments and what it returned
    hFirst             \* history: the length of hLog when the first reader of
                       \* this run began, -1 while none has

vars == <<wal, wal_off, db, next_tx_id, reader_snapshots, cache, wtx, rtx,
          hLog, running, bw, returned, hj, hFirst>>

\* threads of the host that call into the engine
MaxThreads == 2

Threads == 1..MaxThreads

NoCalls == [t \in Threads |-> [pc |-> "idle", tx_id |-> 0]]

NoJoin == [inner |-> <<>>, outer |-> <<>>, cap |-> 0, impl |-> "none", result |-> 0]

Init ==
    /\ wal = <<>>
    /\ wal_off = 0
    /\ db = EmptyDb
    /\ next_tx_id = 1
    /\ reader_snapshots = <<>>
    /\ cache = <<>>
    /\ wtx = {}
    /\ rtx = {}
    /\ hLog = <<>>
    /\ running = TRUE
    /\ bw = NoCalls
    /\ returned = <<>>
    /\ hj = NoJoin
    /\ hFirst = -1

(* ------------------------------ history -------------------------------- *)
\* at: the file offset the record was written at
HPage(tx_id, page_id, data, at) ==
    [kind |-> "page", tx |-> tx_id, page |-> page_id, data |-> data, at |-> at]

HCommit(tx_id, at) ==
    [kind |-> "commit", tx |-> tx_id, page |-> 0, data |-> ZeroPage, at |-> at]

HAbort(tx_id) ==
    [kind |-> "abort", tx |-> tx_id, page |-> 0, data |-> ZeroPage, at |-> 0]

RECURSIVE HPages(_, _, _, _, _)
HPages(c, tx_id, idx, k, at) ==
    IF k = 0 THEN <<>>
    ELSE Append(HPages(c, tx_id, idx, k - 1, at),
                HPage(tx_id, c[idx[k]].page_id, c[idx[k]].data,
                      at + (k - 1) * PageRecWords))

NRecs == Cardinality({i \in 1..Len(hLog) : hLog[i].kind # "abort"})

(* ------------------------------ actions -------------------------------- *)
\* begin_write
BeginWrite ==
    /\ running
    /\ next_tx_id <= MaxTxId
    /\ Cardinality(wtx) < MaxLive
    /\ NRecs < MaxRecs
    /\ wtx' = wtx \cup {next_tx_id}
    /\ next_tx_id' = next_tx_id + 1
    /\ UNCHANGED <<wal, wal_off, db, reader_snapshots, cache, rtx, hLog, running>>
    /\ UNCHANGED <<bw, returned, hj, hFirst>>

\* a registry without the test of reader_count
register_reader_always(rs, snapshot) == Append(rs, snapshot)

\* the registry after begin_read_txn took the snapshot
register_reader(rs, snapshot) ==
    IF Len(rs) < MAX_READERS THEN Append(rs, snapshot) ELSE rs

\* begin_read
begin_read_txn ==
    /\ running
    /\ rtx' = rtx \cup {Len(wal)}
    /\ wal_off' = Len(wal)
    /\ reader_snapshots' = register_reader(reader_snapshots, Len(wal))
    /\ hFirst' = IF reader_snapshots = <<>> THEN Len(hLog) ELSE hFirst
    /\ UNCHANGED <<wal, db, next_tx_id, cache, wtx, hLog, running>>
    /\ UNCHANGED <<bw, returned, hj>>

BeginRead ==
    /\ Len(reader_snapshots) < MaxRegs
    /\ begin_read_txn

\* a new process: waldb_open on the files the last one left
Reopen(f, junk) ==
    /\ wal' = f
    /\ wal_off' = Len(f)
    /\ db' = wal_recover(f, db, junk)
    /\ next_tx_id' = 1
    /\ reader_snapshots' = <<>>
    /\ cache' = <<>>
    /\ wtx' = {}
    /\ rtx' = {}
    /\ running' = TRUE
    /\ bw' = NoCalls
    /\ returned' = <<>>
    /\ hFirst' = -1
    /\ UNCHANGED hj

\* a capacity test that lets one entry too many in
cache_full_late(c, page_id) == find_cached_page(c, page_id) = 0 /\ Len(c) > CACHE_SIZE

\* the cache has no room for a new entry for page_id
cache_full(c, page_id) == find_cached_page(c, page_id) = 0 /\ Len(c) >= CACHE_SIZE

\* write_page
WritePage(tx_id, page_id, data) ==
    /\ running
    /\ tx_id \in wtx
    /\ IF cache_full(cache, page_id)
       THEN \* exit(1): the process ends, its memory and the files stay as
            \* they are until the engine is opened again
            /\ running' = FALSE
            /\ UNCHANGED <<wal, wal_off, db, next_tx_id, reader_snapshots, cache,
                           wtx, rtx, hLog>>
       ELSE /\ cache' = write_page_int(cache, tx_id, page_id, data)
            /\ UNCHANGED <<wal, wal_off, db, next_tx_id, reader_snapshots, wtx,
                           rtx, hLog, running>>
    /\ UNCHANGED <<bw, returned, hj, hFirst>>

\* commit
Commit(tx_id) ==
    LET idx   == DirtyOf(cache, tx_id, 1)
        bytes == PageBytes(cache, tx_id, idx, Len(idx)) \o CommitRec(tx_id)
    IN  /\ running
        /\ tx_id \in wtx
        /\ NRecs + Len(idx) + 1 <= MaxRecs
        /\ wal' = WriteFile(wal, wal_off, bytes)
        /\ wal_off' = wal_off + Len(bytes)
        /\ cache' = CleanFirst(cache, idx, Len(idx))
        /\ wtx' = wtx \ {tx_id}
        /\ hLog' = hLog \o HPages(cache, tx_id, idx, Len(idx), wal_off)
                        \o <<HCommit(tx_id, wal_off + Len(bytes) - CommitRecWords)>>
        /\ UNCHANGED <<db, next_tx_id, reader_snapshots, rtx, running>>
        /\ UNCHANGED <<bw, returned, hj, hFirst>>

\* read_page
ReadPage(snapshot, page_id) ==
    /\ running
    /\ snapshot \in rtx
    /\ \E junk \in JunkWords :
        LET r == read_page_int(cache, wal, db, wal_off, snapshot, page_id, junk)
        IN  wal_off' = r.off
    /\ UNCHANGED <<wal, db, next_tx_id, reader_snapshots, cache, wtx, rtx, hLog,
                   running>>
    /\ UNCHANGED <<bw, returned, hj, hFirst>>

\* checkpoint
Checkpoint ==
    /\ running
    /\ \E junk \in JunkWords :
        LET r == checkpoint_int(wal, reader_snapshots, db, junk)
        IN  /\ db' = r.db
            /\ wal_off' = r.off
    /\ UNCHANGED <<wal, next_tx_id, reader_snapshots, cache, wtx, rtx, hLog,
                   running>>
    /\ UNCHANGED <<bw, returned, hj, hFirst>>

\* the process dies between two calls and the engine is opened again
Crash ==
    /\ running
    /\ \E junk \in JunkWords : Reopen(wal, junk)
    /\ UNCHANGED hLog

\* waldb_open in a new process, after the last one ended
Restart ==
    /\ ~running
    /\ \E junk \in JunkWords : Reopen(wal, junk)
    /\ UNCHANGED hLog

\* the process dies inside commit_tx, after k calls of wal_append_page and
\* before wal_commit, and the engine is opened again
CrashInCommit(tx_id, k) ==
    LET idx   == DirtyOf(cache, tx_id, 1)
        bytes == PageBytes(cache, tx_id, idx, k)
    IN  /\ running
        /\ tx_id \in wtx
        /\ k >= 1
        /\ k <= Len(idx)
        /\ NRecs + k <= MaxRecs
        /\ \E junk \in JunkWords : Reopen(WriteFile(wal, wal_off, bytes), junk)
        /\ hLog' = hLog \o HPages(cache, tx_id, idx, k, wal_off) \o <<HAbort(tx_id)>>

Next ==
    \/ BeginWrite
    \/ BeginRead
    \/ \E t \in 1..MaxTxId, p \in Pages, d \in Images : WritePage(t, p, d)
    \/ \E t \in 1..MaxTxId : Commit(t)
    \/ \E s \in 0..(MaxRecs * PageRecWords), p \in Pages : ReadPage(s, p)
    \/ Checkpoint
    \/ Crash
    \/ \E t \in 1..MaxTxId, k \in 1..(MaxPage + 1) : CrashInCommit(t, k)

Spec == Init /\ [][Next]_vars

(* --------------------------- filling the cache ------------------------- *)
\* A writer that stages one new page after the other, each with the same
\* image, and rewrites page 0 now and then; the engine is opened again after
\* it ended.
NextCache ==
    \/ BeginWrite
    \/ \E t \in 1..MaxTxId, d \in Images : WritePage(t, 0, d)
    \/ \E t \in 1..MaxTxId : WritePage(t, Len(cache), Fill(1))
    \/ \E t \in 1..MaxTxId : Commit(t)
    \/ Restart

SpecCache == Init /\ [][NextCache]_vars

(* ------------------------- filling the registry ------------------------ *)
\* Readers begin without bound; writers work while the registry is empty or
\* has one slot or none left, so that the last registered snapshot and the
\* snapshots of the readers that found the registry full differ from the
\* earlier ones.
WritersTurn ==
    Len(reader_snapshots) \in {0, MAX_READERS - 1, MAX_READERS}

NextReaders ==
    \/ begin_read_txn
    \/ WritersTurn /\ BeginWrite
    \/ WritersTurn /\ \E t \in 1..MaxTxId, p \in Pages, d \in Images : WritePage(t, p, d)
    \/ WritersTurn /\ \E t \in 1..MaxTxId : Commit(t)
    \/ \E s \in rtx, p \in Pages : ReadPage(s, p)

SpecReaders == Init /\ [][NextReaders]_vars

(* ---------------------- begin_write from threads ----------------------- *)
\* begin_write_txn holds no lock: `tx.tx_id = next_tx_id++` is a load of
\* next_tx_id into the thread's tx and a store of the incremented value, and
\* the call completes when it returns the copy of tx.
MaxCalls == 4

\* calls of begin_write begun so far
CallsBegun == Len(returned) + Cardinality({t \in Threads : bw[t].pc # "idle"})

BwLoad(t) ==
    /\ running
    /\ bw[t].pc = "idle"
    /\ CallsBegun < MaxCalls
    /\ bw' = [bw EXCEPT ![t] = [pc |-> "loaded", tx_id |-> next_tx_id]]
    /\ UNCHANGED <<wal, wal_off, db, next_tx_id, reader_snapshots, cache, wtx,
                   rtx, hLog, running, returned, hj, hFirst>>

BwStore(t) ==
    /\ bw[t].pc = "loaded"
    /\ next_tx_id' = bw[t].tx_id + 1
    /\ bw' = [bw EXCEPT ![t].pc = "stored"]
    /\ UNCHANGED <<wal, wal_off, db, reader_snapshots, cache, wtx, rtx, hLog,
                   running, returned, hj, hFirst>>

BwReturn(t) ==
    /\ bw[t].pc = "stored"
    /\ wtx' = wtx \cup {bw[t].tx_id}
    /\ returned' = Append(returned, bw[t].tx_id)
    /\ bw' = [bw EXCEPT ![t] = [pc |-> "idle", tx_id |-> 0]]
    /\ UNCHANGED <<wal, wal_off, db, next_tx_id, reader_snapshots, cache, rtx,
                   hLog, running, hj, hFirst>>

NextTx == \E t \in Threads : BwLoad(t) \/ BwStore(t) \/ BwReturn(t)

SpecTx == Init /\ [][NextTx]_vars

(* ------------------------------ hash join ------------------------------ *)
\* The repository holds two builds of hash_join: src/src/c/hashjoin.c, whose
\* rows are JSON texts and whose keys are compared by their string form, and
\* src/hashjoin.c, whose rows are pickled dicts and whose keys are int64.
\* A row is modelled by the value of its key field; a string is the sequence
\* of its character codes.
HASH_SIZE == 4096
HASH_TABLE_SIZE == 1024
MaxRows == 2

NoKey == [t |-> "none", n |-> 0, s |-> <<>>]
IntKey(n) == [t |-> "int", n |-> n, s |-> <<>>]
StrKey(s) == [t |-> "str", n |-> 0, s |-> s]

\* str() of a Python int
RECURSIVE Digits(_)
Digits(n) == IF n < 10 THEN <<48 + n>> ELSE Append(Digits(n \div 10), 48 + (n % 10))

IntStr(n) == IF n < 0 THEN <<45>> \o Digits(0 - n) ELSE Digits(n)

\* PyObject_Str of a key value
PyObject_Str(k) == IF k.t = "int" THEN IntStr(k.n) ELSE k.s

\* hash_str(s) % HASH_SIZE; HASH_SIZE divides 2^64, so the remainder can be
\* taken at every step
RECURSIVE HashFrom(_, _, _)
HashFrom(s, i, h) ==
    IF i > Len(s) THEN h ELSE HashFrom(s, i + 1, (h * 33 + s[i]) % HASH_SIZE)

hash_str(s) == HashFrom(s, 1, 5381 % HASH_SIZE)

\* the key values of the drawn rows: no key field, the ints -1, 1 and one
\* that shares the slot of 1 in the int64 table, and the string "1"
JoinKeys ==
    {NoKey, IntKey(-1), IntKey(1), IntKey(HASH_TABLE_SIZE + 1), StrKey(IntStr(1))}

RECURSIVE RowsOf(_)
RowsOf(n) ==
    IF n = 0 THEN {<<>>}
    ELSE LET S == RowsOf(n - 1) IN S \cup {Append(r, k) : r \in S, k \in JoinKeys}

\* every merged row takes one unit of the output buffer
RowLen == 1

\* ---- src/src/c/hashjoin.c ----
\* the linear probe of both phases: the slot of key, or a free slot, or
\* full when the probe came back to where it started
RECURSIVE ProbeStr(_, _, _, _)
ProbeStr(table, idx, start, key) ==
    IF idx \notin DOMAIN table THEN [idx |-> idx, full |-> FALSE]
    ELSE IF table[idx].key = key THEN [idx |-> idx, full |-> FALSE]
    ELSE LET nxt == (idx + 1) % HASH_SIZE
         IN  IF nxt = start THEN [idx |-> nxt, full |-> TRUE]
             ELSE ProbeStr(table, nxt, start, key)

\* build phase from row i on; table: slot -> [key, count]
RECURSIVE BuildJson(_, _, _)
BuildJson(inner, i, table) ==
    IF i > Len(inner) THEN [table |-> table, full |-> FALSE]
    ELSE IF inner[i].t = "none" THEN BuildJson(inner, i + 1, table)
    ELSE LET key == PyObject_Str(inner[i])
             h   == hash_str(key)
             pr  == ProbeStr(table, h, h, key)
         IN  IF pr.full THEN [table |-> table, full |-> TRUE]
             ELSE BuildJson(inner, i + 1,
                      [x \in (DOMAIN table) \cup {pr.idx} |->
                          IF x # pr.idx THEN table[x]
                          ELSE IF x \in DOMAIN table
                               THEN [table[x] EXCEPT !.count = @ + 1]
                               ELSE [key |-> key, count |-> 1]])

\* the inner loop of the probe phase: the entry's rows, each written if it
\* fits
RECURSIVE EmitRows(_, _, _, _, _)
EmitRows(j, count, out_pos, result_count, cap) ==
    IF j > count THEN [out_pos |-> out_pos, result_count |-> result_count]
    ELSE IF out_pos + RowLen <= cap
    THEN EmitRows(j + 1, count, out_pos + RowLen, result_count + 1, cap)
    ELSE EmitRows(j + 1, count, out_pos, result_count, cap)

RECURSIVE ProbeJson(_, _, _, _, _, _)
ProbeJson(outer, i, table, out_pos, result_count, cap) ==
    IF i > Len(outer) THEN result_count
    ELSE IF outer[i].t = "none"
    THEN ProbeJson(outer, i + 1, table, out_pos, result_count, cap)
    ELSE LET key == PyObject_Str(outer[i])
             h   == hash_str(key)
             pr  == ProbeStr(table, h, h, key)
         IN  IF ~pr.full /\ pr.idx \in DOMAIN table
             THEN LET e == EmitRows(1, table[pr.idx].count, out_pos, result_count, cap)
                  IN  ProbeJson(outer, i + 1, table, e.out_pos, e.result_count, cap)
             ELSE ProbeJson(outer, i + 1, table, out_pos, result_count, cap)

hash_join_json(inner, outer, cap) ==
    LET b == BuildJson(inner, 1, [x \in {} |-> 0])
    IN  IF b.full THEN 0 ELSE ProbeJson(outer, 1, b.table, 0, 0, cap)

\* ---- src/hashjoin.c ----
get_dict_int(k) == IF k.t = "int" THEN k.n ELSE -1

\* the probe of both phases for a key that is not negative
RECURSIVE ProbeInt(_, _, _)
ProbeInt(table, idx, key) ==
    IF idx \in DOMAIN table /\ table[idx] # key
    THEN ProbeInt(table, (idx + 1) % HASH_TABLE_SIZE, key)
    ELSE idx

\* build phase from row i on; table: slot -> key of the one row it holds
RECURSIVE BuildPickle(_, _, _)
BuildPickle(inner, i, table) ==
    IF i > Len(inner) THEN table
    ELSE LET key == get_dict_int(inner[i])
         IN  IF key = -1 THEN BuildPickle(inner, i + 1, table)
             ELSE LET idx == ProbeInt(table, key % HASH_TABLE_SIZE, key)
                  IN  BuildPickle(inner, i + 1,
                          IF idx \in DOMAIN table THEN table
                          ELSE [x \in (DOMAIN table) \cup {idx} |->
                                   IF x = idx THEN key ELSE table[x]])

RECURSIVE ProbePickle(_, _, _, _, _, _)
ProbePickle(outer, i, table, out_pos, result_count, cap) ==
    IF i > Len(outer) THEN result_count
    ELSE LET key == get_dict_int(outer[i])
         IN  IF key = -1
             THEN ProbePickle(outer, i + 1, table, out_pos, result_count, cap)
             ELSE IF ProbeInt(table, key % HASH_TABLE_SIZE, key) \in DOMAIN table
                     /\ out_pos + RowLen <= cap
             THEN ProbePickle(outer, i + 1, table, out_pos + RowLen,
                              result_count + 1, cap)
             ELSE ProbePickle(outer, i + 1, table, out_pos, result_count, cap)

hash_join_pickle(inner, outer, cap) ==
    ProbePickle(outer, 1, BuildPickle(inner, 1, [x \in {} |-> 0]), 0, 0, cap)

\* ---- calls ----
InitJoin ==
    /\ wal = <<>>
    /\ wal_off = 0
    /\ db = EmptyDb
    /\ next_tx_id = 1
    /\ reader_snapshots = <<>>
    /\ cache = <<>>
    /\ wtx = {}
    /\ rtx = {}
    /\ hLog = <<>>
    /\ running = TRUE
    /\ bw = NoCalls
    /\ returned = <<>>
    /\ hFirst = -1
    /\ hj \in [inner : RowsOf(MaxRows), outer : RowsOf(MaxRows),
                cap : {RowLen, MaxRows * MaxRows * RowLen},
                impl : {"none"}, result : {0}]

HashJoinJson ==
    /\ hj.impl = "none"
    /\ hj' = [hj EXCEPT !.impl = "json",
                        !.result = hash_join_json(hj.inner, hj.outer, hj.cap)]
    /\ UNCHANGED <<wal, wal_off, db, next_tx_id, reader_snapshots, cache, wtx,
                   rtx, hLog, running, bw, returned, hFirst>>

HashJoinPickle ==
    /\ hj.impl = "none"
    /\ hj' = [hj EXCEPT !.impl = "pickle",
                        !.result = hash_join_pickle(hj.inner, hj.outer, hj.cap)]
    /\ UNCHANGED <<wal, wal_off, db, next_tx_id, reader_snapshots, cache, wtx,
                   rtx, hLog, running, bw, returned, hFirst>>

NextJoin == HashJoinJson \/ HashJoinPickle

SpecJoin == InitJoin /\ [][NextJoin]_vars

(* ------------------- files left by earlier writers -------------------- *)
\* The scans are functions of the bytes of the log, whoever wrote them.  The
\* specifications below start with the engine not yet opened on a log drawn
\* from a bounded set of record sequences, and then open it and use it.
MaxScanRecs == 3

\* a magic field that differs from WAL_MAGIC_COMMIT
BadMagic == 0

\* tx ids of the drawn records: one below MAX_TX, and MAX_TX itself
ScanTxIds == {1, MAX_TX}

\* the commit record as wal_commit lays it out, with any magic
CommitRecWith(tx_id, magic) == <<WAL_COMMIT, tx_id, magic>>

ScanRecs ==
    {PageRec(t, p, d) : t \in ScanTxIds, p \in Pages, d \in Images}
    \cup {CommitRecWith(t, m) : t \in ScanTxIds, m \in {WAL_MAGIC_COMMIT, BadMagic}}

\* logs of at most n complete records
RECURSIVE LogsOf(_)
LogsOf(n) ==
    IF n = 0 THEN {<<>>}
    ELSE LET S == LogsOf(n - 1) IN S \cup {l \o r : l \in S, r \in ScanRecs}

\* a record cut short: a proper, non-empty prefix of a record, or of bytes
\* that are no record at all (type 0)
TornTails ==
    UNION {{SubSeq(r, 1, n) : n \in 1..(Len(r) - 1)} :
               r \in ScanRecs \cup {<<0, 1, 0>> \o Fill(1)}}

InitFiles(logs) ==
    /\ wal \in logs
    /\ wal_off = 0
    /\ db = EmptyDb
    /\ next_tx_id = 1
    /\ reader_snapshots = <<>>
    /\ cache = <<>>
    /\ wtx = {}
    /\ rtx = {}
    /\ hLog = <<>>
    /\ running = FALSE
    /\ bw = NoCalls
    /\ returned = <<>>
    /\ hj = NoJoin
    /\ hFirst = -1

InitScan == InitFiles(LogsOf(MaxScanRecs))

\* complete records followed by one record cut short
MaxTornRecs == 2

InitTorn == InitFiles({l \o t : l \in LogsOf(MaxTornRecs), t \in TornTails})

NextScan ==
    \/ Restart
    \/ BeginRead
    \/ \E s \in rtx, p \in Pages : ReadPage(s, p)
    \/ Checkpoint

SpecScan == InitScan /\ [][NextScan]_vars

SpecTorn == InitTorn /\ [][NextScan]_vars

\* the log of a run that committed transaction 1 with no page, wrote both
\* pages in transaction 2 and was killed in commit() after the page records
KilledLogs ==
    UNION {{CommitRec(1) \o PageRec(2, p, d) \o PageRec(2, q, e) :
                q \in Pages \ {p}, d \in Images, e \in Images} : p \in Pages}

InitLate == InitFiles(KilledLogs)

\* the engine opened on such a log, read from and written to
NextLate ==
    \/ Restart
    \/ BeginRead
    \/ \E s \in rtx, p \in Pages : ReadPage(s, p)
    \/ Checkpoint
    \/ BeginWrite
    \/ \E t \in 1..MaxTxId, p \in Pages, d \in Images : WritePage(t, p, d)
    \/ \E t \in 1..MaxTxId : Commit(t)

SpecLate == InitLate /\ [][NextLate]_vars

(* ------------------------- reading the history ------------------------- *)
Max(S) == CHOOSE m \in S : \A x \in S : x <= m

\* the commit or abort that closes the run of page records entry i of h is in
HMark(h, i) ==
    CHOOSE j \in (i + 1)..Len(h) :
        /\ h[j].kind # "page"
        /\ \A k \in (i + 1)..(j - 1) : h[k].kind = "page"

\* page records of transactions whose commit_tx returned
HCommittedIn(h) ==
    {i \in 1..Len(h) : h[i].kind = "page" /\ h[HMark(h, i)].kind = "commit"}

\* page records of transactions that crashed before their commit record
HAbortedIn(h) ==
    {i \in 1..Len(h) : h[i].kind = "page" /\ h[HMark(h, i)].kind = "abort"}

\* committed writes to page p
HWritesIn(h, p) == {i \in HCommittedIn(h) : h[i].page = p}

\* the data ever committed to page p
HDataIn(h, p) == {h[i].data : i \in HWritesIn(h, p)}

HAborted == HAbortedIn(hLog)

HWrites(p) == HWritesIn(hLog, p)

\* committed writes to page p whose commit record ends at or before s
HWritesBefore(p, s) ==
    {i \in HWrites(p) : hLog[HMark(hLog, i)].at + CommitRecWords <= s}

\* the state waldb_open leaves in a new process
FreshlyOpened ==
    /\ cache = <<>>
    /\ reader_snapshots = <<>>
    /\ rtx = {}
    /\ wtx = {}
    /\ next_tx_id = 1

\* what read_page returns to a reader with this snapshot
ReadData(snapshot, page_id, junk) ==
    read_page_int(cache, wal, db, wal_off, snapshot, page_id, junk).data

(* --------------------------- reading the log -------------------------- *)
\* the log is a concatenation of complete page and commit records
RECURSIVE WellFormedFrom(_, _)
WellFormedFrom(f, off) ==
    IF off = Len(f) THEN TRUE
    ELSE IF f[off + 1] = WAL_PAGE /\ off + PageRecWords <= Len(f)
    THEN WellFormedFrom(f, off + PageRecWords)
    ELSE IF f[off + 1] = WAL_COMMIT /\ off + CommitRecWords <= Len(f)
    THEN WellFormedFrom(f, off + CommitRecWords)
    ELSE FALSE

WellFormed(f) == WellFormedFrom(f, 0)

\* the records of a well-formed log, each with the range [from, to) it fills
RECURSIVE RecordsFrom(_, _)
RecordsFrom(f, off) ==
    IF off >= Len(f) THEN {}
    ELSE LET n == IF f[off + 1] = WAL_PAGE THEN PageRecWords ELSE CommitRecWords
         IN  {[from |-> off, to |-> off + n, rec |-> SubSeq(f, off + 1, off + n)]}
             \cup RecordsFrom(f, off + n)

Records(f) == RecordsFrom(f, 0)

PageRecords(f) == {r \in Records(f) : r.rec[1] = WAL_PAGE}

\* tx ids with a commit record of the right magic that ends at or before s
CommittedBy(f, s) ==
    {r.rec[2] : r \in {c \in Records(f) : /\ c.rec[1] = WAL_COMMIT
                                          /\ c.rec[3] = WAL_MAGIC_COMMIT
                                          /\ c.to <= s}}

\* the page records the snapshot lookup of page p at snapshot s may return
Visible(f, p, s) ==
    {r \in PageRecords(f) : /\ r.rec[3] = p
                            /\ r.to <= s
                            /\ r.rec[2] \in CommittedBy(f, s)}

Newest(R) == CHOOSE r \in R : \A q \in R : q.from <= r.from

\* two-pass replay: every page record of a transaction that has a commit
\* record anywhere in the log, in log order
RECURSIVE ReplayFrom(_, _, _, _)
ReplayFrom(f, off, committed, d) ==
    IF off >= Len(f) THEN d
    ELSE IF f[off + 1] = WAL_PAGE
    THEN ReplayFrom(f, off + PageRecWords, committed,
             IF f[off + 2] \in committed
             THEN write_page_to_db(d, f[off + 3],
                      SubSeq(f, off + HdrWords + 1, off + PageRecWords))
             ELSE d)
    ELSE ReplayFrom(f, off + CommitRecWords, committed, d)

Replay(f, d) == ReplayFrom(f, 0, CommittedBy(f, Len(f)), d)

SameFile(d1, d2) ==
    \A q \in (DOMAIN d1) \cup (DOMAIN d2) :
        read_page_from_db(d1, q) = read_page_from_db(d2, q)

\* the words the history says were appended, in order
RECURSIVE HBytes(_, _)
HBytes(h, i) ==
    IF i > Len(h) THEN <<>>
    ELSE (IF h[i].kind = "page" THEN PageRec(h[i].tx, h[i].page, h[i].data)
          ELSE IF h[i].kind = "commit" THEN CommitRec(h[i].tx)
          ELSE <<>>) \o HBytes(h, i + 1)

(* -------------------------------- claims ------------------------------- *)
\* C1 (durability): after a crash and reopen, a reader begun right after the
\* reopen reads, for every page some committed transaction wrote, the data of
\* the last committed write to that page.
C1_Durability ==
    FreshlyOpened =>
        \A p \in Pages : HWrites(p) # {} =>
            \A junk \in JunkWords :
                ReadData(Len(wal), p, junk) = hLog[Max(HWrites(p))].data

\* C2 (atomicity): a page record of a transaction that crashed before its
\* commit record, with data never committed to that page, is not written to
\* the data file by the recovery of any reopen, and is never returned to a
\* reader by the WAL lookup.
C2_RecoveryStep ==
    (cache' = <<>> /\ reader_snapshots' = <<>> /\ next_tx_id' = 1) =>
        \A i \in HAbortedIn(hLog') :
            LET p == hLog'[i].page
                d == hLog'[i].data
            IN  (d \notin HDataIn(hLog', p) /\ read_page_from_db(db', p) = d)
                => read_page_from_db(db, p) = d

C2_Lookup ==
    \A i \in HAborted : \A s \in rtx : \A junk \in JunkWords :
        LET p == hLog[i].page
            d == hLog[i].data
            w == wal_read_page(wal, p, s, junk)
        IN  d \notin HDataIn(hLog, p) => ~(w.found /\ w.data = d)

C2_Atomicity == [][C2_RecoveryStep]_vars /\ []C2_Lookup

\* C3 (snapshot isolation): read_page never returns to a reader the data a
\* transaction wrote to the page when that transaction's commit record ends
\* after the reader's snapshot (unless the write visible at the snapshot
\* carries the same data).
C3_SnapshotIsolation ==
    \A s \in rtx : \A p \in Pages : \A junk \in JunkWords :
        \A i \in HWrites(p) \ HWritesBefore(p, s) :
            ReadData(s, p, junk) = hLog[i].data =>
                /\ HWritesBefore(p, s) # {}
                /\ hLog[Max(HWritesBefore(p, s))].data = hLog[i].data

\* C4 (latest wins): on a log of complete records and a snapshot at a record
\* boundary, the WAL lookup of page p finds a record exactly when some page
\* record of p ends at or before the snapshot with its commit record ending
\* at or before the snapshot, and then returns the payload of the one with
\* the greatest offset.
C4_LatestWins ==
    WellFormed(wal) =>
        \A p \in Pages : \A s \in {0} \cup {r.to : r \in Records(wal)} :
            \A junk \in JunkWords :
                LET w == wal_read_page(wal, p, s, junk)
                    V == Visible(wal, p, s)
                IN  /\ w.found <=> V # {}
                    /\ w.found => w.data = RecData(Newest(V).rec)

\* C5 (commit ordering): a reader never reads the data of a dirty cache entry
\* (a page whose commit has not been flushed) unless that data was committed
\* to the page before, and whenever the log holds the commit record of a
\* transaction where commit_tx wrote it, it holds that transaction's page
\* records where commit_tx wrote them.
C5_NoDirtyRead ==
    \A s \in rtx : \A p \in Pages : \A junk \in JunkWords :
        LET i == find_cached_page(cache, p)
        IN  (i # 0 /\ cache[i].dirty /\ ReadData(s, p, junk) = cache[i].data)
            => cache[i].data \in HDataIn(hLog, p)

C5_PagesBeforeCommit ==
    \A i \in HCommittedIn(hLog) :
        LET c == hLog[HMark(hLog, i)]
        IN  SubSeq(wal, c.at + 1, c.at + CommitRecWords) = CommitRec(c.tx)
            => SubSeq(wal, hLog[i].at + 1, hLog[i].at + PageRecWords)
                   = PageRec(hLog[i].tx, hLog[i].page, hLog[i].data)

C5_CommitOrdering == C5_NoDirtyRead /\ C5_PagesBeforeCommit

\* C6 (recovery replay): on a log of complete records, recovery leaves the
\* data file that the two-pass replay leaves: every page record whose tx_id
\* has a commit record anywhere in the log is written, in log order, and
\* nothing else.
C6_RecoveryReplay ==
    WellFormed(wal) =>
        \A junk \in JunkWords :
            SameFile(wal_recover(wal, db, junk), Replay(wal, db))

\* C7 (append only): as long as no commit_tx was cut short by a crash, the
\* log is the concatenation, in commit order, of the records written.
C7_AppendOnly ==
    (\A i \in 1..Len(hLog) : hLog[i].kind # "abort") => wal = HBytes(hLog, 1)

\* C8 (checkpoint safety): every log range that checkpoint reads as a page
\* record and writes to the data file ends at or before the least snapshot of
\* the readers begun in this run.
C8_CheckpointSafety ==
    rtx # {} =>
        \A junk \in JunkWords :
            \A m \in checkpoint_int(wal, reader_snapshots, db, junk).moved :
                \A s \in rtx : m.to <= s

\* C9 (data file holds committed values): every page of the data file is all
\* zero or the payload of a page record of the log for that page whose tx_id
\* has a commit record in the log.
C9_DataFileCommitted ==
    \A q \in DOMAIN db :
        \/ db[q] = ZeroPage
        \/ \E r \in PageRecords(wal) :
              /\ r.to <= Len(wal)
              /\ r.rec[3] = q
              /\ RecData(r.rec) = db[q]
              /\ r.rec[2] \in CommittedBy(wal, Len(wal))

\* C10 (checkpoint horizon): the horizon of checkpoint is the least snapshot
\* of the readers, or the end of the log when there is no reader, and with no
\* reader a checkpoint migrates every committed page record of the log.
C10_Horizon ==
    /\ oldest_reader_snapshot(reader_snapshots)
           = (IF rtx = {} THEN Len(wal) ELSE CHOOSE m \in rtx : \A x \in rtx : m <= x)
    /\ (rtx = {} /\ WellFormed(wal)) =>
           \A junk \in JunkWords : \A r \in PageRecords(wal) :
               r.rec[2] \in CommittedBy(wal, Len(wal)) =>
                   \E m \in checkpoint_int(wal, reader_snapshots, db, junk).moved :
                       m.from = r.from

\* C11 (checkpoint preserves visibility): a checkpoint changes no answer of
\* read_page: every live reader reads, for every page, the same data right
\* after the checkpoint as right before it.
C11_CheckpointStep ==
    Checkpoint =>
        \A s \in rtx : \A p \in Pages : \A junk \in JunkWords :
            ReadData(s, p, junk)' = ReadData(s, p, junk)

C11_CheckpointPreservesVisibility == [][C11_CheckpointStep]_vars

\* C12 (recovery idempotence): whatever the log and the data file hold, a
\* second recovery leaves the data file as the first recovery left it.
C12_RecoveryIdempotent ==
    \A j1 \in JunkWords : \A j2 \in JunkWords :
        LET once == wal_recover(wal, db, j1)
        IN  SameFile(wal_recover(wal, once, j2), once)

\* where the complete records of a log end
RECURSIVE CompleteEnd(_, _)
CompleteEnd(f, off) ==
    IF off >= Len(f) THEN off
    ELSE IF f[off + 1] = WAL_PAGE /\ off + PageRecWords <= Len(f)
    THEN CompleteEnd(f, off + PageRecWords)
    ELSE IF f[off + 1] = WAL_COMMIT /\ off + CommitRecWords <= Len(f)
    THEN CompleteEnd(f, off + CommitRecWords)
    ELSE off

\* the log without the record cut short at its end
WithoutTail(f) == SubSeq(f, 1, CompleteEnd(f, 0))

\* C13 (torn tail): opening the engine on a log of complete records followed
\* by a record cut short leaves the data file that recovery leaves for the
\* log without that tail.
C13_OpenStep ==
    (Restart /\ WithoutTail(wal) # wal) =>
        \A junk \in JunkWords :
            SameFile(db', wal_recover(WithoutTail(wal), db, junk))

C13_TornTail == [][C13_OpenStep]_vars

\* tx ids named by a commit record of the log whose magic is wrong, and by no
\* commit record whose magic is right
BadMagicOnly(f) ==
    {c.rec[2] : c \in {r \in Records(f) : /\ r.rec[1] = WAL_COMMIT
                                          /\ r.rec[3] # WAL_MAGIC_COMMIT}}
    \ CommittedBy(f, Len(f))

\* the lookup returns no page record of such a transaction
C14_Lookup ==
    \A s \in rtx : \A p \in Pages : \A junk \in JunkWords :
        LET w == wal_read_page(wal, p, s, junk)
        IN  w.found =>
                ~ \E r \in PageRecords(wal) : /\ r.to = w.off
                                              /\ r.rec[3] = p
                                              /\ r.rec[2] \in BadMagicOnly(wal)

\* every page that recovery changes gets the payload of a page record of
\* another transaction
C14_Recovery ==
    \A junk \in JunkWords :
        LET d == wal_recover(wal, db, junk)
        IN  \A q \in DOMAIN d :
                d[q] # read_page_from_db(db, q) =>
                    \E r \in PageRecords(wal) : /\ r.rec[3] = q
                                                /\ RecData(r.rec) = d[q]
                                                /\ r.rec[2] \notin BadMagicOnly(wal)

\* checkpoint migrates no page record of such a transaction
C14_Checkpoint ==
    \A junk \in JunkWords :
        \A m \in checkpoint_int(wal, reader_snapshots, db, junk).moved :
            m.tx \notin BadMagicOnly(wal)

\* C14 (bad commit magic): a transaction whose only commit records have a
\* wrong magic stays uncommitted for every scan: none of its page records is
\* returned by the snapshot lookup, written by recovery or migrated by
\* checkpoint.
C14_BadMagic == C14_Lookup /\ C14_Recovery /\ C14_Checkpoint

\* C15 (monotonic tx_id): the tx ids returned by begin_write, in the order
\* the calls completed, are strictly increasing, hence pairwise distinct.
C15_MonotonicTxId ==
    \A i \in 1..Len(returned) : \A j \in 1..Len(returned) :
        i < j => returned[i] < returned[j]

\* C16 (read_page resolution order): read_page returns the data of the cache
\* entry for the page whenever there is one, whatever its owner, its dirty
\* flag and the reader's snapshot; with no cache entry, the result of the log
\* lookup bounded by the reader's snapshot when that finds a record; and
\* otherwise the page of the data file, all zero when the file has no such
\* page.
C16_ResolutionOrder ==
    \A s \in rtx : \A p \in Pages : \A junk \in JunkWords :
        LET i == find_cached_page(cache, p)
            w == wal_read_page(wal, p, s, junk)
            got == ReadData(s, p, junk)
        IN  /\ i # 0 => got = cache[i].data
            /\ (i = 0 /\ w.found) => got = w.data
            /\ (i = 0 /\ ~w.found /\ p \in DOMAIN db) => got = db[p]
            /\ (i = 0 /\ ~w.found /\ p \notin DOMAIN db) => got = ZeroPage

\* a reader for which one page is served from a dirty cache entry of a live
\* writer and the other from a page record of the log
C16_Witness ==
    \E s \in rtx : \E p \in Pages : \E q \in Pages : \E junk \in JunkWords :
        LET i == find_cached_page(cache, p)
            r == read_page_int(cache, wal, db, wal_off, s, q, junk)
        IN  /\ i # 0
            /\ cache[i].dirty
            /\ cache[i].owner_tx \in wtx
            /\ r.src = "wal"
            /\ WellFormed(wal)
            /\ \E x \in PageRecords(wal) : /\ x.to = r.off
                                            /\ x.rec[3] = q
                                            /\ RecData(x.rec) = r.data

\* the pairs (outer row, inner row) that both carry the key field and whose
\* keys have equal string forms
JoinPairs(inner, outer) ==
    {pr \in (1..Len(outer)) \X (1..Len(inner)) :
        /\ outer[pr[1]].t # "none"
        /\ inner[pr[2]].t # "none"
        /\ PyObject_Str(outer[pr[1]]) = PyObject_Str(inner[pr[2]])}

\* C17 (hash-join row count): when the output fits in the buffer, hash_join
\* returns the number of pairs of an outer and an inner row that both carry
\* the key field and whose keys have equal string forms.
C17_JoinOnly(impl) ==
    LET n == Cardinality(JoinPairs(hj.inner, hj.outer))
    IN  (hj.impl = impl /\ n * RowLen <= hj.cap) => hj.result = n

C17_JoinCount == C17_JoinOnly("json") /\ C17_JoinOnly("pickle")

C17_JsonCount == C17_JoinOnly("json")

\* the cache holds at most CACHE_SIZE entries, no two for the same page
C18_Bounded ==
    /\ Len(cache) <= CACHE_SIZE
    /\ \A i \in 1..Len(cache) : \A j \in 1..Len(cache) :
           cache[i].page_id = cache[j].page_id => i = j

\* within one process no step removes or moves an entry
C18_NoEviction ==
    ~Restart =>
        /\ Len(cache') >= Len(cache)
        /\ \A i \in 1..Len(cache) : cache'[i].page_id = cache[i].page_id

\* write_page on a cache of CACHE_SIZE entries: a page without an entry ends
\* the process and changes nothing else, a page with an entry is staged
C18_WriteWhenFull ==
    \A t \in 1..MaxTxId : \A p \in 0..CACHE_SIZE : \A d \in Images :
        (Len(cache) = CACHE_SIZE /\ WritePage(t, p, d)) =>
            LET i == find_cached_page(cache, p)
            IN  IF i = 0
                THEN ~running' /\ cache' = cache /\ wal' = wal /\ db' = db
                ELSE /\ running'
                     /\ cache' = [cache EXCEPT ![i] =
                            [page_id |-> p, data |-> d, owner_tx |-> t, dirty |-> TRUE]]

\* C18 (cache capacity): the cache never holds more than 64 entries, all for
\* distinct pages, and loses none while the process lives; with 64 entries,
\* write_page for an uncached page ends the process and leaves the cache, the
\* log and the data file as they are, and write_page for a cached page still
\* stages the data.
C18_CacheCapacity ==
    []C18_Bounded /\ [][C18_NoEviction /\ C18_WriteWhenFull]_vars

\* the process ended on a write of an uncached page to a cache of 64
\* entries, in which page 0 had been written more than once
C18_Witness ==
    /\ ~running
    /\ Len(cache) = CACHE_SIZE
    /\ cache[1].data # cache[CACHE_SIZE].data

\* begin_read hands out the end of the log as snapshot and registers it only
\* while fewer than MAX_READERS snapshots are registered
C19_BeginReadStep ==
    begin_read_txn =>
        /\ Len(wal) \in rtx'
        /\ reader_snapshots' = IF Len(reader_snapshots) < MAX_READERS
                               THEN Append(reader_snapshots, Len(wal))
                               ELSE reader_snapshots

\* every reader handed out, registered or not, can read every page
C19_Usable ==
    \A s \in rtx : \A p \in Pages : ENABLED ReadPage(s, p)

\* C19 (reader registry overflow): begin_read always returns a reader whose
\* snapshot is the end of the log; the snapshot is registered only while
\* fewer than 32 are, a full registry is left as it is and never exceeds 32
\* entries, and the reader returned can be used for read_page all the same.
C19_RegistryOverflow ==
    /\ [](Len(reader_snapshots) <= MAX_READERS)
    /\ []C19_Usable
    /\ [][C19_BeginReadStep]_vars

\* the registry is full and a reader that is not in it holds a snapshot
\* newer than every registered one
C19_Witness ==
    /\ Len(reader_snapshots) = MAX_READERS
    /\ \E s \in rtx : \A i \in 1..Len(reader_snapshots) : reader_snapshots[i] < s

\* a log of complete records without the records of tx ids >= MAX_TX
RECURSIVE StripFrom(_, _)
StripFrom(f, off) ==
    IF off >= Len(f) THEN <<>>
    ELSE LET n   == IF f[off + 1] = WAL_PAGE THEN PageRecWords ELSE CommitRecWords
             rec == SubSeq(f, off + 1, off + n)
         IN  (IF rec[2] >= MAX_TX THEN <<>> ELSE rec) \o StripFrom(f, off + n)

Strip(f) == StripFrom(f, 0)

\* opening the engine leaves the data file that recovery leaves for the log
\* without the records of such transactions
C20_OpenStep ==
    Restart =>
        \A junk \in JunkWords : SameFile(db', wal_recover(Strip(wal), db, junk))

\* the lookup marks no such transaction committed and returns none of its
\* page records
C20_Lookup ==
    \A s \in rtx : \A p \in Pages : \A junk \in JunkWords :
        LET fw == ForwardScan(wal, 0, 0, s, {}, junk)
            w  == wal_read_page(wal, p, s, junk)
        IN  /\ \A t \in fw.committed : t < MAX_TX
            /\ w.found =>
                   ~ \E x \in PageRecords(wal) : /\ x.to = w.off
                                                 /\ x.rec[3] = p
                                                 /\ x.rec[2] >= MAX_TX

\* C20 (MAX_TX hazard): a transaction whose tx_id is MAX_TX or more is not
\* taken as committed by recovery or by the snapshot lookup although its
\* commit record has the right magic: recovery writes none of its page
\* records to the data file and the lookup returns none of them.
C20_MaxTxHazard == [][C20_OpenStep]_vars /\ []C20_Lookup

\* the engine was opened on a log that holds a commit record of tx MAX_TX
\* with the right magic and, after it, a page record of that tx; the data
\* file is still empty and a reader has begun
C20_Witness ==
    /\ running
    /\ rtx # {}
    /\ SameFile(db, EmptyDb)
    /\ \E c \in Records(wal) : \E x \in PageRecords(wal) :
           /\ c.rec = CommitRec(MAX_TX)
           /\ x.rec[2] = MAX_TX
           /\ c.to <= x.from

\* every clean cache entry holds the data of the last committed write to its
\* page
C21_CleanIsLastCommitted ==
    \A i \in 1..Len(cache) :
        ~cache[i].dirty =>
            /\ HWrites(cache[i].page_id) # {}
            /\ cache[i].data = hLog[Max(HWrites(cache[i].page_id))].data

\* every clean cache entry holds the payload of the last page record for its
\* page in the log whose tx_id has a commit record
C21_CleanIsLastInLog ==
    WellFormed(wal) =>
        \A i \in 1..Len(cache) :
            ~cache[i].dirty =>
                LET R == {r \in PageRecords(wal) :
                             /\ r.rec[3] = cache[i].page_id
                             /\ r.rec[2] \in CommittedBy(wal, Len(wal))}
                IN  /\ R # {}
                    /\ \E r \in R : /\ \A x \in R : x.from <= r.from
                                     /\ RecData(r.rec) = cache[i].data

\* when commit returns, no cache entry of its transaction is dirty
C21_CommitStep ==
    \A t \in 1..MaxTxId :
        Commit(t) =>
            \A i \in 1..Len(cache') : cache'[i].owner_tx = t => ~cache'[i].dirty

\* C21 (clean-cache coherence): with write transactions one at a time, every
\* clean cache entry holds the data of the last committed write to its page,
\* which is the payload of the last page record for that page in the log
\* whose transaction has a commit record; and when commit(W) returns no cache
\* entry owned by W is dirty.
C21_CleanCacheCoherence ==
    /\ []C21_CleanIsLastCommitted
    /\ []C21_CleanIsLastInLog
    /\ [][C21_CommitStep]_vars

\* a step that ends the process run
C22_NewRun ==
    \/ Crash
    \/ Restart
    \/ \E t \in 1..MaxTxId, k \in 1..(MaxPage + 1) : CrashInCommit(t, k)

\* within a run the registry only grows, and once it holds a snapshot the
\* horizon of checkpoint stays what it is
C22_RegistryStep ==
    ~C22_NewRun =>
        /\ Len(reader_snapshots') >= Len(reader_snapshots)
        /\ SubSeq(reader_snapshots', 1, Len(reader_snapshots)) = reader_snapshots
        /\ reader_snapshots # <<>> =>
               oldest_reader_snapshot(reader_snapshots')
                   = oldest_reader_snapshot(reader_snapshots)

\* checkpoint migrates no page record that was written after the first
\* reader of the run began
C22_NoLateMigration ==
    hFirst >= 0 =>
        \A junk \in JunkWords :
            \A m \in checkpoint_int(wal, reader_snapshots, db, junk).moved :
                ~ \E i \in (hFirst + 1)..Len(hLog) :
                      /\ hLog[i].kind = "page"
                      /\ hLog[i].at = m.from
                      /\ hLog[i].tx = m.tx
                      /\ hLog[i].page = m.page
                      /\ hLog[i].data = m.data

\* C22 (reader registrations are permanent): within a process run no step
\* removes a snapshot from the registry, so the horizon of checkpoint is the
\* same from the first reader on, and no page record written to the log after
\* the first reader began is migrated to the data file by checkpoint.
C22_RegistrationsPermanent ==
    [][C22_RegistryStep]_vars /\ []C22_NoLateMigration

====
